---- MODULE Spec2Model ----
(***************************************************************************)
(* A model of seniorvoice-ai: the speech-to-text pipeline of               *)
(* src/speech_model.py (transcribe_audio and the lazily loaded model) and  *)
(* the rule-based command parser of src/backend/intent_model.py.           *)
(*                                                                         *)
(* Python strings are TLA+ strings; a character is a string of length 1.   *)
(* Floats are modelled by exact integers in fixed units or by exact        *)
(* fractions compared by cross-multiplication.                             *)
(***************************************************************************)
EXTENDS Integers, Sequences, FiniteSets, TLC

VARIABLES
    \* ---- src/speech_model.py -------------------------------------------
    _MODEL,      \* the module global: 0 is None, n > 0 a loaded instance
    cacheFile,   \* whether ~/.cache/whisper/<model_name>.pt exists
    loadCalls,   \* how many times whisper.load_model has been called
    engine,      \* the hypotheses the recognition engine may answer with
    pc,          \* per request thread: the statement it is about to run
    audio,       \* per request thread: the conditioned waveform [size, rms]
    model,       \* per request thread: the local `model` (0: not bound)
    loads,       \* per request thread: its own calls of whisper.load_model
    firstErr,    \* per request thread: how its first load failed ("none": it did not)
    raised,      \* per request thread: the exception that left the call ("none")
    removed,     \* per request thread: whether it unlinked the cache file
    attempts,    \* per request thread: the engine calls so far, [hint, result]
    best_result, \* per request thread: index in attempts of best_result (0: None)
    best_score,  \* per request thread: best_score, in units of 1/ScoreDen
    ret,         \* per request thread: the returned dict, or NoResult
    \* ---- src/backend/intent_model.py -----------------------------------
    raw_text,    \* the text given to the operation
    step,        \* the operation applied last ("start": none yet)
    out          \* what it returned

vars == <<_MODEL, cacheFile, loadCalls, engine, pc, audio, model, loads, firstErr,
          raised, removed, attempts, best_result, best_score, ret,
          raw_text, step, out>>
sttVars == <<_MODEL, cacheFile, loadCalls, engine, pc, audio, model, loads, firstErr,
             raised, removed, attempts, best_result, best_score, ret>>
nluVars == <<raw_text, step, out>>

(***************************************************************************)
(* Characters and strings                                                  *)
(***************************************************************************)
LowerChars == {"a","b","c","d","e","f","g","h","i","j","k","l","m",
               "n","o","p","q","r","s","t","u","v","w","x","y","z"}
UpperChars == {"A","B","C","D","E","F","G","H","I","J","K","L","M",
               "N","O","P","Q","R","S","T","U","V","W","X","Y","Z"}
DigitChars == {"0","1","2","3","4","5","6","7","8","9"}
SpaceChars == {" "}
PunctChars == {".", ",", ";", ":", "!", "?"}

\* str.lower() and str.upper() on one character
LowerOf ==
    ("A" :> "a") @@ ("B" :> "b") @@ ("C" :> "c") @@ ("D" :> "d") @@ ("E" :> "e") @@
    ("F" :> "f") @@ ("G" :> "g") @@ ("H" :> "h") @@ ("I" :> "i") @@ ("J" :> "j") @@
    ("K" :> "k") @@ ("L" :> "l") @@ ("M" :> "m") @@ ("N" :> "n") @@ ("O" :> "o") @@
    ("P" :> "p") @@ ("Q" :> "q") @@ ("R" :> "r") @@ ("S" :> "s") @@ ("T" :> "t") @@
    ("U" :> "u") @@ ("V" :> "v") @@ ("W" :> "w") @@ ("X" :> "x") @@ ("Y" :> "y") @@
    ("Z" :> "z")
UpperOf ==
    ("a" :> "A") @@ ("b" :> "B") @@ ("c" :> "C") @@ ("d" :> "D") @@ ("e" :> "E") @@
    ("f" :> "F") @@ ("g" :> "G") @@ ("h" :> "H") @@ ("i" :> "I") @@ ("j" :> "J") @@
    ("k" :> "K") @@ ("l" :> "L") @@ ("m" :> "M") @@ ("n" :> "N") @@ ("o" :> "O") @@
    ("p" :> "P") @@ ("q" :> "Q") @@ ("r" :> "R") @@ ("s" :> "S") @@ ("t" :> "T") @@
    ("u" :> "U") @@ ("v" :> "V") @@ ("w" :> "W") @@ ("x" :> "X") @@ ("y" :> "Y") @@
    ("z" :> "Z")
\* the code point order of the characters that intent names are made of
CharOrd ==
    ("_" :> 0) @@
    ("a" :> 1) @@ ("b" :> 2) @@ ("c" :> 3) @@ ("d" :> 4) @@ ("e" :> 5) @@
    ("f" :> 6) @@ ("g" :> 7) @@ ("h" :> 8) @@ ("i" :> 9) @@ ("j" :> 10) @@
    ("k" :> 11) @@ ("l" :> 12) @@ ("m" :> 13) @@ ("n" :> 14) @@ ("o" :> 15) @@
    ("p" :> 16) @@ ("q" :> 17) @@ ("r" :> 18) @@ ("s" :> 19) @@ ("t" :> 20) @@
    ("u" :> 21) @@ ("v" :> 22) @@ ("w" :> 23) @@ ("x" :> 24) @@ ("y" :> 25) @@
    ("z" :> 26)
DigitVal ==
    ("0" :> 0) @@ ("1" :> 1) @@ ("2" :> 2) @@ ("3" :> 3) @@ ("4" :> 4) @@
    ("5" :> 5) @@ ("6" :> 6) @@ ("7" :> 7) @@ ("8" :> 8) @@ ("9" :> 9)
DigitStr == <<"0","1","2","3","4","5","6","7","8","9">>

Ch(s, i) == IF 1 <= i /\ i <= Len(s) THEN SubSeq(s, i, i) ELSE ""
From(s, i) == SubSeq(s, i, Len(s))

\* the regular expression classes \w, \s, \d for the characters of the model
IsWordChar(c) == c \in LowerChars \cup UpperChars \cup DigitChars \cup {"_"}
IsSpace(c) == c \in SpaceChars
IsDigit(c) == c \in DigitChars

\* the regular expression assertion \b between s[i-1] and s[i]
WordBoundary(s, i) ==
    LET before == i > 1 /\ i - 1 <= Len(s) /\ IsWordChar(Ch(s, i - 1))
        after == i >= 1 /\ i <= Len(s) /\ IsWordChar(Ch(s, i))
    IN  before # after

\* s[i:].startswith(k)
StartsAt(s, k, i) == i + Len(k) - 1 <= Len(s) /\ SubSeq(s, i, i + Len(k) - 1) = k

\* k in s
RECURSIVE ContainsFrom(_, _, _)
ContainsFrom(s, k, i) ==
    IF i + Len(k) - 1 > Len(s) THEN FALSE
    ELSE IF StartsAt(s, k, i) THEN TRUE
    ELSE ContainsFrom(s, k, i + 1)
Contains(s, k) == ContainsFrom(s, k, 1)

\* str.lower()
RECURSIVE lower(_)
lower(s) ==
    IF Len(s) = 0 THEN ""
    ELSE LET c == Ch(s, 1)
         IN  (IF c \in UpperChars THEN LowerOf[c] ELSE c) \o lower(From(s, 2))

\* str.strip()
RECURSIVE lstrip(_)
lstrip(s) == IF Len(s) > 0 /\ IsSpace(Ch(s, 1)) THEN lstrip(From(s, 2)) ELSE s
RECURSIVE rstrip(_)
rstrip(s) ==
    IF Len(s) > 0 /\ IsSpace(Ch(s, Len(s))) THEN rstrip(SubSeq(s, 1, Len(s) - 1)) ELSE s
strip(s) == rstrip(lstrip(s))

\* str.split(): the maximal runs of non-whitespace characters
RECURSIVE SkipSpaces(_, _)
SkipSpaces(s, i) == IF i <= Len(s) /\ IsSpace(Ch(s, i)) THEN SkipSpaces(s, i + 1) ELSE i
RECURSIVE SkipNonSpaces(_, _)
SkipNonSpaces(s, i) ==
    IF i <= Len(s) /\ ~IsSpace(Ch(s, i)) THEN SkipNonSpaces(s, i + 1) ELSE i
RECURSIVE split(_)
split(s) ==
    LET i == SkipSpaces(s, 1)
        j == SkipNonSpaces(s, i)
    IN  IF i > Len(s) THEN <<>> ELSE <<SubSeq(s, i, j - 1)>> \o split(From(s, j))

\* " ".join(words)
RECURSIVE join(_)
join(words) ==
    IF Len(words) = 0 THEN ""
    ELSE IF Len(words) = 1 THEN words[1]
    ELSE words[1] \o " " \o join(Tail(words))

\* str.capitalize(): first character upper-cased, the rest lower-cased
capitalize(s) ==
    IF Len(s) = 0 THEN ""
    ELSE LET c == Ch(s, 1)
         IN  (IF c \in LowerChars THEN UpperOf[c] ELSE c) \o lower(From(s, 2))

\* str.replace(old, new), left to right, non-overlapping
RECURSIVE replace(_, _, _)
replace(s, old, new) ==
    IF Len(s) = 0 THEN ""
    ELSE IF StartsAt(s, old, 1) THEN new \o replace(From(s, Len(old) + 1), old, new)
    ELSE Ch(s, 1) \o replace(From(s, 2), old, new)

\* Python's order on str, for strings over the characters of CharOrd
RECURSIVE StrLess(_, _)
StrLess(a, b) ==
    IF Len(b) = 0 THEN FALSE
    ELSE IF Len(a) = 0 THEN TRUE
    ELSE IF Ch(a, 1) = Ch(b, 1) THEN StrLess(From(a, 2), From(b, 2))
    ELSE CharOrd[Ch(a, 1)] < CharOrd[Ch(b, 1)]

(***************************************************************************)
(* src/backend/intent_model.py: the tables                                 *)
(***************************************************************************)
None == "<None>"

FILLERS == <<"euh", "mmm", "ben", "yaani", "bah", "heuu", "uh", "ah">>

DIALECT_DICT ==
    ("sbah" :> "matin") @@ ("ghodwa" :> "demain") @@ ("ghodwaa" :> "demain") @@
    ("doctour" :> "docteur") @@ ("docteur" :> "docteur") @@ ("chnouwa" :> "quoi") @@
    ("lyoum" :> "aujourdhui") @@ ("el" :> "") @@ ("saa" :> "heure") @@
    ("dwa" :> "medicament") @@ ("jaw" :> "meteo") @@ ("klim" :> "appelle")

\* a dict keeps insertion order: the items, in the order of declaration
INTENT_KEYWORDS == <<
    [intent |-> "create_reminder", keywords |-> <<"rappelle", "rappel", "souviens", "rdv">>],
    [intent |-> "medication_reminder", keywords |-> <<"medicament", "cachet", "traitement", "pilule">>],
    [intent |-> "call_contact", keywords |-> <<"appelle", "appel", "telephone", "contacte">>],
    [intent |-> "emergency_call", keywords |-> <<"urgence", "samu", "ambulance", "secours">>],
    [intent |-> "get_weather", keywords |-> <<"meteo", "temps", "pluie", "temperature">>],
    [intent |-> "set_alarm", keywords |-> <<"alarme", "reveil", "reveille">>],
    [intent |-> "check_time", keywords |-> <<"quelle heure", "heure", "wa9tech", "temps maintenant">>],
    [intent |-> "cancel_reminder", keywords |-> <<"annule", "supprime", "efface", "enleve le rappel">>],
    [intent |-> "send_message", keywords |-> <<"message", "sms", "envoie", "dis a">>],
    [intent |-> "play_media", keywords |-> <<"musique", "radio", "coran", "quran", "chanson">>] >>

CITY_KEYWORDS == <<"tunis", "sfax", "sousse", "nabeul", "monastir", "bizerte", "gabes", "ariana">>

CONTACT_HINTS == <<"fils", "fille", "docteur", "medecin", "voisin", "soeur", "frere",
                   "pharmacie", "taxi">>

\* INTENT_KEYWORDS[name]
KeywordsOf(name) ==
    LET i == CHOOSE k \in 1..Len(INTENT_KEYWORDS) : INTENT_KEYWORDS[k].intent = name
    IN  INTENT_KEYWORDS[i].keywords

\* any(k in text for k in keywords)
AnyIn(keywords, text) == \E k \in 1..Len(keywords) : Contains(text, keywords[k])

(***************************************************************************)
(* clean_text                                                              *)
(***************************************************************************)
\* re.sub(rf"\b{filler}\b", " ", value)
RECURSIVE SubFiller(_, _, _)
SubFiller(s, filler, i) ==
    IF i > Len(s) THEN ""
    ELSE IF /\ StartsAt(s, filler, i)
            /\ WordBoundary(s, i)
            /\ WordBoundary(s, i + Len(filler))
         THEN " " \o SubFiller(s, filler, i + Len(filler))
    ELSE Ch(s, i) \o SubFiller(s, filler, i + 1)

\* for filler in FILLERS: value = re.sub(...)
RECURSIVE SubFillers(_, _)
SubFillers(s, k) ==
    IF k > Len(FILLERS) THEN s ELSE SubFillers(SubFiller(s, FILLERS[k], 1), k + 1)

\* re.sub(r"[.,;:!?]+", " ", value)
RECURSIVE SkipPunct(_, _)
SkipPunct(s, i) == IF i <= Len(s) /\ Ch(s, i) \in PunctChars THEN SkipPunct(s, i + 1) ELSE i
RECURSIVE SubPunct(_, _)
SubPunct(s, i) ==
    IF i > Len(s) THEN ""
    ELSE IF Ch(s, i) \in PunctChars THEN " " \o SubPunct(s, SkipPunct(s, i))
    ELSE Ch(s, i) \o SubPunct(s, i + 1)

\* re.sub(r"\b(\w+)(\s+\1\b)+", r"\1", value).  \1 is a whole word: it starts at
\* a \b and is followed by \s.  RepeatsEnd is where the last (\s+\1\b) ends.
RECURSIVE SkipWordChars(_, _)
SkipWordChars(s, i) ==
    IF i <= Len(s) /\ IsWordChar(Ch(s, i)) THEN SkipWordChars(s, i + 1) ELSE i
RECURSIVE RepeatsEnd(_, _, _)
RepeatsEnd(s, w, j) ==
    LET p == SkipSpaces(s, j)
    IN  IF p > j /\ StartsAt(s, w, p) /\ WordBoundary(s, p + Len(w))
        THEN RepeatsEnd(s, w, p + Len(w))
        ELSE j
RECURSIVE SubRepeated(_, _)
SubRepeated(s, i) ==
    IF i > Len(s) THEN ""
    ELSE LET j == SkipWordChars(s, i)
             w == SubSeq(s, i, j - 1)
             e == RepeatsEnd(s, w, j)
         IN  IF WordBoundary(s, i) /\ j > i /\ e > j
             THEN w \o SubRepeated(s, e)
             ELSE Ch(s, i) \o SubRepeated(s, i + 1)

\* re.sub(r"\s+", " ", value)
RECURSIVE SubSpaces(_, _)
SubSpaces(s, i) ==
    IF i > Len(s) THEN ""
    ELSE IF IsSpace(Ch(s, i)) THEN " " \o SubSpaces(s, SkipSpaces(s, i))
    ELSE Ch(s, i) \o SubSpaces(s, i + 1)

clean_text(text) ==
    LET v0 == strip(lower(text))
        v1 == SubFillers(v0, 1)
        v2 == SubPunct(v1, 1)
        v3 == SubRepeated(v2, 1)
    IN  strip(SubSpaces(v3, 1))

(***************************************************************************)
(* normalize_dialect                                                       *)
(***************************************************************************)
\* DIALECT_DICT.get(tok, tok)
DialectGet(tok) == IF tok \in DOMAIN DIALECT_DICT THEN DIALECT_DICT[tok] ELSE tok

RECURSIVE MapTokens(_)
MapTokens(tokens) ==
    IF Len(tokens) = 0 THEN <<>>
    ELSE (IF DialectGet(tokens[1]) # "" THEN <<DialectGet(tokens[1])>> ELSE <<>>)
         \o MapTokens(Tail(tokens))

normalize_dialect(text) == join(MapTokens(split(text)))

\* the Text Normalizer: clean_text followed by normalize_dialect
Normalizer(text) == normalize_dialect(clean_text(text))

(***************************************************************************)
(* detect_intent                                                           *)
(***************************************************************************)
\* sum(1 for keyword in keywords if keyword in text)
KeywordScore(keywords, text) ==
    Cardinality({k \in 1..Len(keywords) : Contains(text, keywords[k])})

\* the list `scored` after the loop: (score, intent) for every intent with a
\* positive score, in the order of INTENT_KEYWORDS
RECURSIVE ScoredFrom(_, _)
ScoredFrom(text, k) ==
    IF k > Len(INTENT_KEYWORDS) THEN <<>>
    ELSE LET score == KeywordScore(INTENT_KEYWORDS[k].keywords, text)
         IN  (IF score > 0 THEN << <<score, INTENT_KEYWORDS[k].intent>> >> ELSE <<>>)
             \o ScoredFrom(text, k + 1)
Scored(text) == ScoredFrom(text, 1)

\* the order a sort keyed on the score alone would use
TupleLess_ScoreOnly(a, b) == a[1] < b[1]

\* Python's order on the tuples (int, str)
TupleLess(a, b) == a[1] < b[1] \/ (a[1] = b[1] /\ StrLess(a[2], b[2]))

\* list.sort(reverse=True): descending in the order of the tuples
RECURSIVE InsertDesc(_, _)
InsertDesc(sorted, x) ==
    IF Len(sorted) = 0 THEN <<x>>
    ELSE IF TupleLess(sorted[1], x) THEN <<x>> \o sorted
    ELSE <<sorted[1]>> \o InsertDesc(Tail(sorted), x)
RECURSIVE SortReverseFrom(_, _, _)
SortReverseFrom(list, k, acc) ==
    IF k > Len(list) THEN acc ELSE SortReverseFrom(list, k + 1, InsertDesc(acc, list[k]))
SortReverse(list) == SortReverseFrom(list, 1, <<>>)

\* scored.sort(reverse=True); best_intent = scored[0][1]
best_intent(text) == SortReverse(Scored(text))[1][2]

\* detect_intent without the emergency override
detect_intent_NoEmergency(text) ==
    IF Len(Scored(text)) = 0 THEN "unknown"
    ELSE LET b == best_intent(text)
         IN  IF b = "create_reminder" /\ AnyIn(KeywordsOf("medication_reminder"), text)
             THEN "medication_reminder"
             ELSE b

detect_intent(text) ==
    IF Len(Scored(text)) = 0 THEN "unknown"
    ELSE LET b == best_intent(text)
         IN  IF b = "call_contact" /\ AnyIn(KeywordsOf("emergency_call"), text)
             THEN "emergency_call"
             ELSE IF b = "create_reminder" /\ AnyIn(KeywordsOf("medication_reminder"), text)
             THEN "medication_reminder"
             ELSE b

(***************************************************************************)
(* extract_time                                                            *)
(***************************************************************************)
\* int(digits)
RECURSIVE ParseIntAcc(_, _)
ParseIntAcc(digits, acc) ==
    IF Len(digits) = 0 THEN acc
    ELSE ParseIntAcc(From(digits, 2), 10 * acc + DigitVal[Ch(digits, 1)])
ParseInt(digits) == ParseIntAcc(digits, 0)

\* f"{n:02d}" for 0 <= n < 100
Format02d(n) == DigitStr[(n \div 10) + 1] \o DigitStr[(n % 10) + 1]

\* ([01]?\d|2[0-3]) at i: where the group may end (exclusive), in the order the
\* regular expression engine tries the alternatives
HourEnds(s, i) ==
    (IF Ch(s, i) \in {"0", "1"} /\ IsDigit(Ch(s, i + 1)) THEN <<i + 2>> ELSE <<>>)
    \o (IF IsDigit(Ch(s, i)) THEN <<i + 1>> ELSE <<>>)
    \o (IF Ch(s, i) = "2" /\ Ch(s, i + 1) \in {"0", "1", "2", "3"} THEN <<i + 2>> ELSE <<>>)

\* [0-5]\d at m
IsMinuteAt(s, m) == Ch(s, m) \in {"0", "1", "2", "3", "4", "5"} /\ IsDigit(Ch(s, m + 1))

\* \s*h(?:\s*([0-5]\d))?\b after an hour that ends at j: <<minute digits>>,
\* <<"">> when group 2 does not take part, <<>> when there is no match
RestHourH(s, j) ==
    LET k == SkipSpaces(s, j)
        m == SkipSpaces(s, k + 1)
    IN  IF Ch(s, k) # "h" THEN <<>>
        ELSE IF IsMinuteAt(s, m) /\ WordBoundary(s, m + 2) THEN <<SubSeq(s, m, m + 1)>>
        ELSE IF WordBoundary(s, k + 1) THEN <<"">>
        ELSE <<>>

\* :([0-5]\d)\b after an hour that ends at j
RestHourColon(s, j) ==
    IF Ch(s, j) = ":" /\ IsMinuteAt(s, j + 1) /\ WordBoundary(s, j + 3)
    THEN <<SubSeq(s, j + 1, j + 2)>>
    ELSE <<>>

Rest(s, j, pattern) == IF pattern = 1 THEN RestHourH(s, j) ELSE RestHourColon(s, j)

\* the match of patterns[pattern] that starts at i: <<group 1, group 2>> or <<>>
RECURSIVE MatchEnds(_, _, _, _, _)
MatchEnds(s, i, ends, k, pattern) ==
    IF k > Len(ends) THEN <<>>
    ELSE IF Len(Rest(s, ends[k], pattern)) > 0
         THEN <<SubSeq(s, i, ends[k] - 1), Rest(s, ends[k], pattern)[1]>>
         ELSE MatchEnds(s, i, ends, k + 1, pattern)
MatchAt(s, i, pattern) ==
    IF WordBoundary(s, i) THEN MatchEnds(s, i, HourEnds(s, i), 1, pattern) ELSE <<>>

\* re.search(patterns[pattern], text): the leftmost match
RECURSIVE SearchTime(_, _, _)
SearchTime(s, i, pattern) ==
    IF i > Len(s) THEN <<>>
    ELSE IF Len(MatchAt(s, i, pattern)) > 0 THEN MatchAt(s, i, pattern)
    ELSE SearchTime(s, i + 1, pattern)

\* f"{hour:02d}:{minute:02d}" of a match
FormatTime(m) ==
    LET hour == ParseInt(m[1])
        minute == IF m[2] # "" THEN ParseInt(m[2]) ELSE 0
    IN  Format02d(hour) \o ":" \o Format02d(minute)

extract_time(text) ==
    IF Len(SearchTime(text, 1, 1)) > 0 THEN FormatTime(SearchTime(text, 1, 1))
    ELSE IF Len(SearchTime(text, 1, 2)) > 0 THEN FormatTime(SearchTime(text, 1, 2))
    ELSE IF Contains(text, "matin") THEN "09:00"
    ELSE IF Contains(text, "soir") THEN "20:00"
    ELSE None

(***************************************************************************)
(* extract_date.  A date is its proleptic Gregorian ordinal                *)
(* (date.toordinal()); isoformat() renders it one-to-one.                  *)
(***************************************************************************)
weekdays == <<"lundi", "mardi", "mercredi", "jeudi", "vendredi", "samedi", "dimanche">>

\* date.weekday(): Monday is 0; ordinal 1 is a Monday
weekday(d) == (d + 6) % 7

\* the loop over weekdays.items(): the first name found decides
RECURSIVE WeekdayScan(_, _, _)
WeekdayScan(text, now, k) ==
    IF k > Len(weekdays) THEN now
    ELSE IF Contains(text, weekdays[k])
         THEN LET delta == ((k - 1) - weekday(now)) % 7
              IN  now + (IF delta = 0 THEN 7 ELSE delta)
         ELSE WeekdayScan(text, now, k + 1)

extract_date(text, now) ==
    IF Contains(text, "demain") THEN now + 1
    ELSE IF Contains(text, "apres demain") THEN now + 2
    ELSE IF Contains(text, "aujourdhui") \/ Contains(text, "auj") THEN now
    ELSE WeekdayScan(text, now, 1)

(***************************************************************************)
(* extract_city, extract_contact, extract_message, build_reminder_text     *)
(***************************************************************************)
RECURSIVE FirstIn(_, _, _)
FirstIn(list, text, k) ==
    IF k > Len(list) THEN None
    ELSE IF Contains(text, list[k]) THEN list[k]
    ELSE FirstIn(list, text, k + 1)

extract_city(text) ==
    IF FirstIn(CITY_KEYWORDS, text, 1) = None THEN None
    ELSE capitalize(FirstIn(CITY_KEYWORDS, text, 1))

\* where the one of `words` that starts at i ends (exclusive); 0 when none does
RECURSIVE WordEndAt(_, _, _, _)
WordEndAt(s, i, words, k) ==
    IF k > Len(words) THEN 0
    ELSE IF StartsAt(s, words[k], i) THEN i + Len(words[k])
    ELSE WordEndAt(s, i, words, k + 1)

\* the class [a-zA-Z0-9' -]
IsContactChar(c) == c \in LowerChars \cup UpperChars \cup DigitChars \cup {"'", " ", "-"}
RECURSIVE SkipContactChars(_, _)
SkipContactChars(s, i) ==
    IF i <= Len(s) /\ IsContactChar(Ch(s, i)) THEN SkipContactChars(s, i + 1) ELSE i

\* re.search(r"(?:appelle|contacte|telephone a)\s+([a-zA-Z0-9' -]+)", text):
\* <<group 1>> of the leftmost match, or <<>>.  \s+ gives its last blank back to
\* the group when no character of the class follows the blanks.
RECURSIVE SearchContact(_, _)
SearchContact(s, i) ==
    IF i > Len(s) THEN <<>>
    ELSE LET j == WordEndAt(s, i, <<"appelle", "contacte", "telephone a">>, 1)
             p == SkipSpaces(s, j)
             g == IF IsContactChar(Ch(s, p)) THEN p ELSE p - 1
         IN  IF j > 0 /\ p > j /\ g > j
             THEN <<SubSeq(s, g, SkipContactChars(s, g) - 1)>>
             ELSE SearchContact(s, i + 1)

\* re.split(r"\b(demain|aujourdhui|a|a\s+\d|vers|a\s+\d+h)\b", candidate)[0]:
\* the text before the leftmost match.  Where "a\s+\d" or "a\s+\d+h" match, the
\* earlier alternative "a" matches too (a blank follows it), so it decides.
RECURSIVE BeforeConnector(_, _)
BeforeConnector(s, i) ==
    IF i > Len(s) THEN s
    ELSE LET j == WordEndAt(s, i, <<"demain", "aujourdhui", "a", "vers">>, 1)
         IN  IF WordBoundary(s, i) /\ j > 0 /\ WordBoundary(s, j)
             THEN SubSeq(s, 1, i - 1)
             ELSE BeforeConnector(s, i + 1)

extract_contact(text) ==
    LET m == SearchContact(text, 1)
        candidate == IF Len(m) > 0 THEN strip(BeforeConnector(strip(m[1]), 1)) ELSE ""
    IN  IF candidate # "" THEN candidate ELSE FirstIn(CONTACT_HINTS, text, 1)

\* re.search(r"(?:message|sms|envoie)\s+(.*)", text): <<group 1>> or <<>>
RECURSIVE SearchMessage(_, _)
SearchMessage(s, i) ==
    IF i > Len(s) THEN <<>>
    ELSE LET j == WordEndAt(s, i, <<"message", "sms", "envoie">>, 1)
             p == SkipSpaces(s, j)
         IN  IF j > 0 /\ p > j THEN <<From(s, p)>> ELSE SearchMessage(s, i + 1)

extract_message(text) ==
    LET m == SearchMessage(text, 1)
    IN  IF Len(m) > 0 /\ strip(m[1]) # "" THEN capitalize(strip(m[1]))
        ELSE "Message vocal senior"

RECURSIVE StripTokens(_, _, _)
StripTokens(s, tokens, k) ==
    IF k > Len(tokens) THEN s ELSE StripTokens(replace(s, tokens[k], " "), tokens, k + 1)

build_reminder_text(text) ==
    IF Contains(text, "docteur") THEN "Rendez-vous docteur"
    ELSE LET tokens == <<"rappelle moi", "rappelle", "demain", "matin", "soir", "medicament">>
             stripped == strip(SubSpaces(StripTokens(text, tokens, 1), 1))
         IN  IF stripped # "" THEN capitalize(stripped) ELSE "Rappel"

(***************************************************************************)
(* parse_command.  The payload is a dict: a function of the keys it has.   *)
(* today is date.today(), the default reference of extract_date.           *)
(***************************************************************************)
OrDefault(value, default) == IF value = None \/ value = "" THEN default ELSE value

parse_command(raw, today) ==
    LET cleaned == clean_text(raw)
        normalized == normalize_dialect(cleaned)
        action == detect_intent(normalized)
        base == ("action" :> action) @@ ("normalized_text" :> normalized)
                @@ ("confidence" :> 0)
        reminder ==
            IF action \in {"create_reminder", "medication_reminder", "set_alarm"}
            THEN ("date" :> extract_date(normalized, today))
                 @@ ("time" :> extract_time(normalized))
                 @@ ("text" :> build_reminder_text(normalized))
            ELSE <<>>
        call ==
            IF action \in {"call_contact", "emergency_call"}
            THEN ("contact" :> IF action = "emergency_call" THEN "urgence"
                               ELSE extract_contact(normalized))
            ELSE <<>>
        weather ==
            IF action = "get_weather"
            THEN ("city" :> OrDefault(extract_city(normalized), "Tunis"))
                 @@ ("date" :> extract_date(normalized, today))
            ELSE <<>>
        time == IF action = "check_time" THEN ("timezone" :> "Africa/Tunis") ELSE <<>>
        cancel ==
            IF action = "cancel_reminder"
            THEN ("date" :> extract_date(normalized, today))
            ELSE <<>>
        message ==
            IF action = "send_message"
            THEN ("contact" :> OrDefault(extract_contact(normalized), "famille"))
                 @@ ("text" :> extract_message(normalized))
            ELSE <<>>
        media ==
            IF action = "play_media"
            THEN ("media" :> IF Contains(normalized, "coran") \/ Contains(normalized, "quran")
                             THEN "quran"
                             ELSE IF Contains(normalized, "radio") THEN "radio"
                             ELSE "musique")
            ELSE <<>>
    IN  media @@ message @@ cancel @@ time @@ weather @@ call @@ reminder @@ base

(***************************************************************************)
(* src/speech_model.py: the pure functions.                                *)
(*                                                                         *)
(* Units.  A segment's avg_logprob, no_speech_prob and compression_ratio   *)
(* are integers in hundredths.  An RMS energy is an integer in thousandths.*)
(* A quality score is an integer in units of 1/ScoreDen, which is exact    *)
(* for the texts (length dividing 24) and the segment lists (length        *)
(* dividing 6) of Hypotheses.  A returned confidence is an                 *)
(* integer in thousandths, which is what round(confidence, 3) keeps.       *)
(* TLA+ strings are ASCII: "~" stands for a Cyrillic letter (U+0400 to     *)
(* U+04FF) and "#" is a character outside _ALLOWED_CHAR.                   *)
(***************************************************************************)
TARGET_SR == 16000
\* tenths of hundredths, over a text of a length dividing 24 and a list of
\* segments of a length dividing 6
ScoreDen == (10 * 100) * 24 * 6

Max(a, b) == IF a >= b THEN a ELSE b
Min(a, b) == IF a <= b THEN a ELSE b

\* round(p / q) for p >= 0, q > 0: to the nearest integer, a half to the even one
RoundDiv(p, q) ==
    LET d == p \div q
        r == p % q
    IN  IF 2 * r < q THEN d
        ELSE IF 2 * r > q THEN d + 1
        ELSE IF d % 2 = 0 THEN d ELSE d + 1

\* _resample_linear: the length of the array it returns
\* (frames: audio.shape[0])
resample_len(frames, src_sr) ==
    LET dst_len == RoundDiv(frames * TARGET_SR, src_sr)
    IN  IF src_sr = TARGET_SR \/ frames = 0 THEN frames
        ELSE IF dst_len <= 1 THEN frames
        ELSE dst_len

\* int(0.7 * TARGET_SR)
MinSamples == (7 * TARGET_SR) \div 10
\* 0.008, in thousandths
RmsFloor == 8

\* an off-by-one length check
TooShort_OffByOne(a) == a.size + 1 < MinSamples

\* the two early returns of transcribe_audio
TooShort(a) == a.size < MinSamples
TooQuiet(a) == a.rms < RmsFloor
Rejected(a) == TooShort(a) \/ TooQuiet(a)

\* text.lower().count(pair): non-overlapping occurrences
RECURSIVE count(_, _)
count(s, sub) ==
    IF Len(s) < Len(sub) THEN 0
    ELSE IF StartsAt(s, sub, 1) THEN 1 + count(From(s, Len(sub) + 1), sub)
    ELSE count(From(s, 2), sub)

\* len(set(words))
Distinct(words) == Cardinality({words[k] : k \in 1..Len(words)})

_is_repetitive(text) ==
    LET words == split(strip(lower(text)))
        pair == join(SubSeq(words, 1, 2))
    IN  IF Len(words) < 3 THEN FALSE
        ELSE IF Distinct(words) <= 2 /\ Len(words) >= 4 THEN TRUE
        ELSE pair # "" /\ count(lower(text), pair) >= 3

\* _ALLOWED_CHAR.fullmatch(ch), for the characters of the model
IsAllowedChar(c) ==
    c \in LowerChars \cup UpperChars \cup DigitChars \cup SpaceChars \cup PunctChars
          \cup {"'", "(", ")", "-"}
\* "Ѐ" <= ch <= "ӿ"
IsCyrillic(c) == c = "~"

\* sum(seg.get(key, default) for seg in segments)
RECURSIVE SumOf(_, _)
SumOf(segments, key) ==
    IF Len(segments) = 0 THEN 0 ELSE segments[1][key] + SumOf(Tail(segments), key)

\* _text_quality_score, in units of 1/ScoreDen
_text_quality_score(text, result) ==
    IF text = "" \/ strip(text) = "" THEN (0 - 999) * ScoreDen
    ELSE
      LET length == Max(Len(text), 1)
          allowed == Cardinality({k \in 1..Len(text) : IsAllowedChar(Ch(text, k))})
          cyrillic == Cardinality({k \in 1..Len(text) : IsCyrillic(Ch(text, k))})
          segments == result.segments
          n == IF Len(segments) > 0 THEN Len(segments) ELSE 1
          \* the sums of the averages; the defaults -1.5, 0.5 and 2.0 without segments
          logprob == IF Len(segments) > 0 THEN SumOf(segments, "avg_logprob") ELSE 0 - 150
          nospeech == IF Len(segments) > 0 THEN SumOf(segments, "no_speech_prob") ELSE 50
          compression ==
              IF Len(segments) > 0 THEN SumOf(segments, "compression_ratio") ELSE 200
          repetition_penalty == IF _is_repetitive(text) THEN 18 ELSE 0
          compression_penalty == Max(0, compression - 240 * n)
          perChar == ScoreDen \div (10 * length)
          perSeg == ScoreDen \div (100 * n)
          perSeg10 == ScoreDen \div (10 * 100 * n)
      IN  (25 * allowed * perChar)
          + (logprob * perSeg)
          - (13 * nospeech * perSeg10)
          - (8 * compression_penalty * perSeg10)
          - (32 * cyrillic * perChar)
          - (repetition_penalty * (ScoreDen \div 10))

\* a comparison that lets a later attempt replace an equal one
IsBetter_OrEqual(score, best) == score >= best

\* if score > best_score
IsBetter(score, best) == score > best

\* the confidence of the selected result, the fraction <<numerator, denominator>>:
\* max(0.0, min(1.0, 1.0 - avg_no_speech)), or 0.4 without segments
Confidence(segments) ==
    LET n == Len(segments)
        den == n * 100
    IN  IF n > 0 THEN <<Max(0, Min(den, den - SumOf(segments, "no_speech_prob"))), den>>
        ELSE <<40, 100>>

\* a guard that fires only below 0.5
BelowGuard_Half(c) == 2 * c[1] < c[2]

\* confidence < 0.75
BelowGuard(c) == 4 * c[1] < 3 * c[2]
\* min(confidence, 0.35)
Capped(c) == IF 20 * c[1] <= 7 * c[2] THEN c ELSE <<35, 100>>
\* round(confidence, 3), in thousandths
Round3(c) == RoundDiv(1000 * c[1], c[2])

\* lines 179-197 of transcribe_audio: the dict returned for the selected result
Assembled(result) ==
    LET text == strip(result.text)
        confidence == Confidence(result.segments)
        guarded == _is_repetitive(text) /\ BelowGuard(confidence)
    IN  [text |-> IF guarded THEN "" ELSE text,
         confidence |-> Round3(IF guarded THEN Capped(confidence) ELSE confidence),
         language |-> result.language]

(***************************************************************************)
(* The requests of the speech-to-text service.  app.run() serves each      *)
(* request on a thread of its own, and each runs transcribe_audio.         *)
(***************************************************************************)
NumThreads == 2
Threads == 1..NumThreads

\* the uploads: the file's extension and sample width, its frame count and
\* rate, and the RMS energy of the waveform once resampled and normalized
Segment(logprob, nospeech, compression) ==
    [avg_logprob |-> logprob, no_speech_prob |-> nospeech, compression_ratio |-> compression]
Upload(ext, width, frames, rate, rms) ==
    [ext |-> ext, width |-> width, frames |-> frames, rate |-> rate, rms |-> rms]
Uploads == {
    Upload(".mp3", 2, 16000, 16000, 200),
    Upload(".wav", 1, 16000, 16000, 200),
    Upload(".wav", 2, 0, 16000, 0),
    Upload(".wav", 2, 11199, 16000, 200),
    Upload(".wav", 2, 5599, 8000, 200),
    Upload(".wav", 2, 5600, 8000, 200),
    Upload(".wav", 2, 11200, 16000, 7),
    Upload(".wav", 2, 11200, 16000, 8),
    Upload(".WAV", 2, 48000, 16000, 0) }

\* what model.transcribe may answer: the text and the segments
Hypotheses == <<
    [text |-> "", segments |-> <<>>],
    [text |-> " ok b", segments |-> <<Segment(0 - 30, 10, 150)>>],
    [text |-> " ok b", segments |-> <<Segment(0 - 30, 10, 150), Segment(0 - 30, 10, 150)>>],
    [text |-> " a a a ab", segments |-> <<Segment(0 - 20, 10, 150)>>],
    [text |-> " a a a ab",
     segments |-> <<Segment(0 - 20, 40, 150), Segment(0 - 20, 50, 250), Segment(0 - 20, 41, 300)>>],
    [text |-> " a a a ab", segments |-> <<Segment(0 - 90, 80, 260)>>],
    [text |-> " ~~ #", segments |-> <<Segment(0 - 10, 5, 150)>>],
    [text |-> " a b a b a b cd ef gh ijk", segments |-> <<Segment(0 - 40, 30, 150)>>] >>

\* the language the engine detects when no hint is given
Detected == {"fr", "en"}

\* attempts = [None, "fr", "ar"]
LANGS == <<None, "fr", "ar">>

\* what whisper.load_model does: it returns a model, or raises a RuntimeError
\* naming a checksum, another RuntimeError, or another exception
LoadOutcomes == {"ok", "checksum", "runtime", "other"}

NoResult == [text |-> None, confidence |-> 0 - 1, language |-> None]
RejectedResult == [text |-> "", confidence |-> 0, language |-> "unknown"]

\* the instance a load of thread t yields: one per call of whisper.load_model
Instance(t) == 2 * (t - 1) + loads[t]

\* a request's locals before its call
InitSTT(active, hyps) ==
    /\ _MODEL = 0
    /\ cacheFile \in BOOLEAN
    /\ loadCalls = 0
    /\ engine = hyps
    /\ pc = [t \in Threads |-> IF t \in active THEN "start" ELSE "off"]
    /\ audio = [t \in Threads |-> [size |-> 0, rms |-> 0]]
    /\ model = [t \in Threads |-> 0]
    /\ loads = [t \in Threads |-> 0]
    /\ firstErr = [t \in Threads |-> "none"]
    /\ raised = [t \in Threads |-> "none"]
    /\ removed = [t \in Threads |-> FALSE]
    /\ attempts = [t \in Threads |-> <<>>]
    /\ best_result = [t \in Threads |-> 0]
    /\ best_score = [t \in Threads |-> (0 - 10000) * ScoreDen]
    /\ ret = [t \in Threads |-> NoResult]

\* transcribe_audio, lines 151-164: the format checks, the conditioning and the
\* two early returns
Condition(t) ==
    /\ pc[t] = "start"
    /\ \E u \in Uploads :
         LET conditioned == [size |-> resample_len(u.frames, u.rate), rms |-> u.rms]
         IN  IF lower(u.ext) # ".wav" \/ u.width # 2
             THEN /\ raised' = [raised EXCEPT ![t] = "ValueError"]
                  /\ pc' = [pc EXCEPT ![t] = "failed"]
                  /\ UNCHANGED <<audio, ret>>
             ELSE /\ audio' = [audio EXCEPT ![t] = conditioned]
                  /\ UNCHANGED raised
                  /\ IF Rejected(conditioned)
                     THEN /\ ret' = [ret EXCEPT ![t] = RejectedResult]
                          /\ pc' = [pc EXCEPT ![t] = "done"]
                     ELSE /\ pc' = [pc EXCEPT ![t] = "load_check"]
                          /\ UNCHANGED ret
    /\ UNCHANGED <<_MODEL, cacheFile, loadCalls, engine, model, loads, firstErr,
                   removed, attempts, best_result, best_score>>
    /\ UNCHANGED nluVars

\* _load_model, line 22: if _MODEL is not None
LoadCheck(t) ==
    /\ pc[t] = "load_check"
    /\ pc' = [pc EXCEPT ![t] = IF _MODEL # 0 THEN "load_return" ELSE "load_call"]
    /\ UNCHANGED <<_MODEL, cacheFile, loadCalls, engine, audio, model, loads, firstErr,
                   raised, removed, attempts, best_result, best_score, ret>>
    /\ UNCHANGED nluVars

\* _load_model, line 27: whisper.load_model(model_name) is called
LoadCall(t) ==
    /\ pc[t] = "load_call"
    /\ loadCalls' = loadCalls + 1
    /\ loads' = [loads EXCEPT ![t] = @ + 1]
    /\ pc' = [pc EXCEPT ![t] = "loading"]
    /\ UNCHANGED <<_MODEL, cacheFile, engine, audio, model, firstErr,
                   raised, removed, attempts, best_result, best_score, ret>>
    /\ UNCHANGED nluVars

\* _load_model, lines 27-32: the call returns and _MODEL is assigned, or it
\* raises: only a RuntimeError naming a checksum is handled.  whisper downloads
\* the model when it has to: the call may write the file cache_file names (wrote),
\* and never removes it.
LoadOutcome(t) ==
    /\ pc[t] = "loading"
    /\ \E outcome \in LoadOutcomes, wrote \in BOOLEAN :
         /\ cacheFile' = (cacheFile \/ wrote)
         /\ IF outcome = "ok"
            THEN /\ _MODEL' = Instance(t)
                 /\ pc' = [pc EXCEPT ![t] = "load_return"]
                 /\ UNCHANGED <<firstErr, raised>>
            ELSE /\ firstErr' = [firstErr EXCEPT ![t] = outcome]
                 /\ UNCHANGED _MODEL
                 /\ IF outcome = "checksum"
                    THEN /\ pc' = [pc EXCEPT ![t] = "cache_exists"]
                         /\ UNCHANGED raised
                    ELSE /\ raised' = [raised EXCEPT ![t] = outcome]
                         /\ pc' = [pc EXCEPT ![t] = "failed"]
    /\ UNCHANGED <<loadCalls, engine, audio, model, loads,
                   removed, attempts, best_result, best_score, ret>>
    /\ UNCHANGED nluVars

\* _load_model, line 33: if cache_file.exists()
CacheExists(t) ==
    /\ pc[t] = "cache_exists"
    /\ pc' = [pc EXCEPT ![t] = IF cacheFile THEN "cache_unlink" ELSE "retry_call"]
    /\ UNCHANGED <<_MODEL, cacheFile, loadCalls, engine, audio, model, loads, firstErr,
                   raised, removed, attempts, best_result, best_score, ret>>
    /\ UNCHANGED nluVars

\* _load_model, line 34: cache_file.unlink(), which raises FileNotFoundError
\* when the file is gone
CacheUnlink(t) ==
    /\ pc[t] = "cache_unlink"
    /\ IF cacheFile
       THEN /\ cacheFile' = FALSE
            /\ removed' = [removed EXCEPT ![t] = TRUE]
            /\ pc' = [pc EXCEPT ![t] = "retry_call"]
            /\ UNCHANGED raised
       ELSE /\ raised' = [raised EXCEPT ![t] = "FileNotFoundError"]
            /\ pc' = [pc EXCEPT ![t] = "failed"]
            /\ UNCHANGED <<cacheFile, removed>>
    /\ UNCHANGED <<_MODEL, loadCalls, engine, audio, model, loads, firstErr,
                   attempts, best_result, best_score, ret>>
    /\ UNCHANGED nluVars

\* _load_model, line 35: whisper.load_model(model_name) is called again
RetryCall(t) ==
    /\ pc[t] = "retry_call"
    /\ loadCalls' = loadCalls + 1
    /\ loads' = [loads EXCEPT ![t] = @ + 1]
    /\ pc' = [pc EXCEPT ![t] = "reloading"]
    /\ UNCHANGED <<_MODEL, cacheFile, engine, audio, model, firstErr,
                   raised, removed, attempts, best_result, best_score, ret>>
    /\ UNCHANGED nluVars

\* _load_model, line 35: the second call returns and _MODEL is assigned, or
\* whatever it raises leaves _load_model
RetryOutcome(t) ==
    /\ pc[t] = "reloading"
    /\ \E outcome \in LoadOutcomes, wrote \in BOOLEAN :
         /\ cacheFile' = (cacheFile \/ wrote)
         /\ IF outcome = "ok"
            THEN /\ _MODEL' = Instance(t)
                 /\ pc' = [pc EXCEPT ![t] = "load_return"]
                 /\ UNCHANGED raised
            ELSE /\ raised' = [raised EXCEPT ![t] = outcome]
                 /\ pc' = [pc EXCEPT ![t] = "failed"]
                 /\ UNCHANGED _MODEL
    /\ UNCHANGED <<loadCalls, engine, audio, model, loads, firstErr,
                   removed, attempts, best_result, best_score, ret>>
    /\ UNCHANGED nluVars

\* _load_model, lines 23, 28 and 36: return _MODEL, bound to `model` at line 166
LoadReturn(t) ==
    /\ pc[t] = "load_return"
    /\ model' = [model EXCEPT ![t] = _MODEL]
    /\ pc' = [pc EXCEPT ![t] = "attempt"]
    /\ UNCHANGED <<_MODEL, cacheFile, loadCalls, engine, audio, loads, firstErr,
                   raised, removed, attempts, best_result, best_score, ret>>
    /\ UNCHANGED nluVars

\* transcribe_audio, lines 171-177: one iteration of the loop over attempts
Attempt(t) ==
    /\ pc[t] = "attempt"
    /\ \E h \in engine, detected \in Detected :
         LET lang == LANGS[Len(attempts[t]) + 1]
             result == [text |-> Hypotheses[h].text,
                        segments |-> Hypotheses[h].segments,
                        language |-> IF lang = None THEN detected ELSE lang]
             score == _text_quality_score(strip(result.text), result)
             called == Append(attempts[t], [lang |-> lang, result |-> result])
         IN  /\ attempts' = [attempts EXCEPT ![t] = called]
             /\ IF IsBetter(score, best_score[t])
                THEN /\ best_score' = [best_score EXCEPT ![t] = score]
                     /\ best_result' = [best_result EXCEPT ![t] = Len(called)]
                ELSE UNCHANGED <<best_score, best_result>>
             /\ pc' = [pc EXCEPT ![t] = IF Len(called) = Len(LANGS) THEN "assemble"
                                        ELSE "attempt"]
    /\ UNCHANGED <<_MODEL, cacheFile, loadCalls, engine, audio, model, loads, firstErr,
                   raised, removed, ret>>
    /\ UNCHANGED nluVars

\* transcribe_audio, lines 179-197
Assemble(t) ==
    /\ pc[t] = "assemble"
    /\ LET result == IF best_result[t] # 0 THEN attempts[t][best_result[t]].result
                     ELSE [text |-> "", language |-> "unknown", segments |-> <<>>]
       IN  ret' = [ret EXCEPT ![t] = Assembled(result)]
    /\ pc' = [pc EXCEPT ![t] = "done"]
    /\ UNCHANGED <<_MODEL, cacheFile, loadCalls, engine, audio, model, loads, firstErr,
                   raised, removed, attempts, best_result, best_score>>
    /\ UNCHANGED nluVars

NextSTT ==
    \E t \in Threads :
        \/ Condition(t)
        \/ LoadCheck(t)
        \/ LoadCall(t)
        \/ LoadOutcome(t)
        \/ CacheExists(t)
        \/ CacheUnlink(t)
        \/ RetryCall(t)
        \/ RetryOutcome(t)
        \/ LoadReturn(t)
        \/ Attempt(t)
        \/ Assemble(t)

\* the command parser is not running
IdleNLU == raw_text = "" /\ step = "off" /\ out = None

\* one request at a time: every hypothesis of the engine
Init == InitSTT({1}, 1..Len(Hypotheses)) /\ IdleNLU
Spec == Init /\ [][NextSTT]_vars

\* concurrent requests, with an engine that answers one hypothesis
InitThreads == InitSTT(Threads, {2}) /\ IdleNLU
SpecThreads == InitThreads /\ [][NextSTT]_vars

(***************************************************************************)
(* The operations of the command parser, each applied to a text.           *)
(***************************************************************************)
MaxWords == 3

Vocabulary == {"Rdv,", "meteo", "appelle", "samu", "el", "apres", "demain", "8:30"}

\* the texts of n words
RECURSIVE TextsOf(_)
TextsOf(n) ==
    IF n = 1 THEN Vocabulary
    ELSE {t \o " " \o w : t \in TextsOf(n - 1), w \in Vocabulary}
Texts == UNION {TextsOf(n) : n \in 1..MaxWords}

\* date.today(), as an ordinal: Friday 2026-11-06
Todays == {739926}

\* no request is being transcribed
IdleSTT == InitSTT({}, {}) /\ cacheFile = TRUE

InitNLU ==
    /\ IdleSTT
    /\ raw_text \in Texts
    /\ step = "start"
    /\ out = None

\* parse_command(raw_text), as process() calls it
ParseCommand ==
    /\ step = "start"
    /\ \E today \in Todays :
         out' = [today |-> today, payload |-> parse_command(raw_text, today)]
    /\ step' = "parsed"
    /\ UNCHANGED raw_text
    /\ UNCHANGED sttVars

\* the Text Normalizer applied to the text
Normalize ==
    /\ step = "start"
    /\ out' = [first |-> Normalizer(raw_text)]
    /\ step' = "normalized"
    /\ UNCHANGED raw_text
    /\ UNCHANGED sttVars

\* the Text Normalizer applied to what it returned
NormalizeAgain ==
    /\ step = "normalized"
    /\ out' = [first |-> out.first, second |-> Normalizer(out.first)]
    /\ step' = "renormalized"
    /\ UNCHANGED raw_text
    /\ UNCHANGED sttVars

\* detect_intent(text), with its locals scored (before the sort) and best_intent
DetectIntent ==
    /\ step = "start"
    /\ LET text == lower(raw_text)
       IN  out' = [text |-> text,
                   scored |-> Scored(text),
                   best_intent |-> IF Len(Scored(text)) > 0 THEN best_intent(text) ELSE None,
                   intent |-> detect_intent(text)]
    /\ step' = "detected"
    /\ UNCHANGED raw_text
    /\ UNCHANGED sttVars

\* extract_date(text, reference)
ExtractDate ==
    /\ step = "start"
    /\ \E today \in Todays :
         out' = [text |-> lower(raw_text), today |-> today,
                 date |-> extract_date(lower(raw_text), today)]
    /\ step' = "dated"
    /\ UNCHANGED raw_text
    /\ UNCHANGED sttVars

NextNLU ==
    \/ ParseCommand
    \/ Normalize
    \/ NormalizeAgain
    \/ DetectIntent
    \/ ExtractDate

SpecNLU == InitNLU /\ [][NextNLU]_vars

(***************************************************************************)
(* The claims about transcribe_audio (Spec: one request at a time)         *)
(***************************************************************************)
\* the requests that were conditioned: past the format checks
Conditioned(t) == pc[t] \notin {"off", "start"} /\ raised[t] # "ValueError"
\* the requests that returned from the loop over the attempts
Transcribed(t) == pc[t] = "done" /\ Len(attempts[t]) > 0
\* the score of the k-th engine call of request t
ScoreOf(t, k) ==
    _text_quality_score(strip(attempts[t][k].result.text), attempts[t][k].result)
\* the earliest engine call of request t whose score no other call exceeds
EarliestBest(t) ==
    CHOOSE k \in 1..Len(attempts[t]) :
        /\ \A j \in 1..Len(attempts[t]) : ScoreOf(t, j) <= ScoreOf(t, k)
        /\ \A j \in 1..(k - 1) : ScoreOf(t, j) < ScoreOf(t, k)

\* C1: a request whose conditioned waveform has fewer than int(0.7 * 16000) = 11200
\* samples, or an RMS energy below 0.008, has returned {text: "", confidence: 0.0,
\* language: "unknown"} without entering _load_model and without any engine call.
C1_RejectedWithoutEngine ==
    \A t \in Threads :
        (Conditioned(t) /\ (audio[t].size < 11200 \/ audio[t].rms < 8)) =>
            /\ pc[t] = "done"
            /\ ret[t] = [text |-> "", confidence |-> 0, language |-> "unknown"]
            /\ loads[t] = 0
            /\ model[t] = 0
            /\ attempts[t] = <<>>

\* a long enough but too quiet waveform was rejected
C1_Witness ==
    \E t \in Threads :
        /\ pc[t] = "done"
        /\ audio[t].size >= 11200
        /\ audio[t].rms < 8
        /\ ret[t].language = "unknown"

\* C2: the engine is called with the hints unset, "fr", "ar" in this order, three
\* times for a request that returns a transcription; the result is built from the
\* call with the highest score, the earliest one among equals (also when all three
\* texts are empty).
C2_EarliestBestAttempt ==
    \A t \in Threads :
        /\ \A k \in 1..Len(attempts[t]) : attempts[t][k].lang = <<None, "fr", "ar">>[k]
        /\ Transcribed(t) =>
            /\ Len(attempts[t]) = 3
            /\ best_result[t] = EarliestBest(t)
            /\ ret[t] = Assembled(attempts[t][EarliestBest(t)].result)

\* two calls with different results share the highest score and the first is kept
C2_Witness ==
    \E t \in Threads :
        /\ Transcribed(t)
        /\ ScoreOf(t, 1) = ScoreOf(t, 2)
        /\ ScoreOf(t, 3) < ScoreOf(t, 1)
        /\ attempts[t][1].result # attempts[t][2].result
        /\ attempts[t][1].result.language # attempts[t][2].result.language
        /\ ret[t].language = attempts[t][1].result.language
        /\ ret[t].text # ""

\* the confidence derived from the selected result, <<numerator, denominator>>:
\* 1 - mean no_speech_prob within [0, 1], or 0.4 without segments
DerivedConfidence(result) ==
    LET n == Len(result.segments)
        sum == SumOf(result.segments, "no_speech_prob")
    IN  IF n = 0 THEN <<4, 10>>
        ELSE IF sum >= 100 * n THEN <<0, 1>>
        ELSE IF sum <= 0 THEN <<1, 1>>
        ELSE <<100 * n - sum, 100 * n>>

\* C9: a returned confidence lies in [0, 1]; no returned text is non-empty, flagged
\* by the Repetition Guard and paired with a confidence below 0.75.  When the
\* selected text is flagged and its derived confidence is below 0.75 the returned
\* text is empty and the returned confidence at most 0.35; otherwise the selected
\* text and the derived confidence, rounded to 3 decimals, are returned.
C9_GuardedResult ==
    \A t \in Threads :
        /\ pc[t] = "done" =>
            /\ ret[t].confidence >= 0 /\ ret[t].confidence <= 1000
            /\ ~(ret[t].text # "" /\ _is_repetitive(ret[t].text) /\ ret[t].confidence < 750)
        /\ Transcribed(t) =>
            LET selected == attempts[t][best_result[t]].result
                text == strip(selected.text)
                c == DerivedConfidence(selected)
            IN  IF _is_repetitive(text) /\ 4 * c[1] < 3 * c[2]
                THEN ret[t].text = "" /\ ret[t].confidence <= 350
                ELSE /\ ret[t].text = text
                     /\ ret[t].confidence = RoundDiv(1000 * c[1], c[2])

\* a flagged text with a derived confidence between 0.35 and 0.75 was cleared
C9_Witness ==
    \E t \in Threads :
        /\ Transcribed(t)
        /\ _is_repetitive(strip(attempts[t][best_result[t]].result.text))
        /\ LET c == DerivedConfidence(attempts[t][best_result[t]].result)
           IN  4 * c[1] < 3 * c[2] /\ 20 * c[1] > 7 * c[2]
        /\ ret[t].text = ""
        /\ ret[t].confidence = 350

(***************************************************************************)
(* The claims about _load_model (SpecThreads: concurrent requests)         *)
(***************************************************************************)
LoadFailures == {"checksum", "runtime", "other", "FileNotFoundError"}
\* request t left _load_model by an exception
LoadFailed(t) == pc[t] = "failed" /\ raised[t] \in LoadFailures

\* C3: unless a load fails, whisper.load_model is called at most once, whatever
\* the interleaving of the requests; a request that finds the model cached
\* returns the cached instance without loading.
C3_SingleInitialization ==
    /\ (\A t \in Threads : firstErr[t] = "none" /\ raised[t] \notin LoadFailures)
           => loadCalls <= 1
    /\ \A t \in Threads : (model[t] # 0 /\ loads[t] = 0) => model[t] = _MODEL

\* C4: only a checksum failure is recovered, by one retry after the cache file is
\* removed if present; a failure of the retry and any other load failure leave
\* _load_model as raised, with no cache file removed by the other path, _MODEL
\* unset and no transcription result.
C4_RecoveryOnlyForChecksum ==
    /\ \A t \in Threads :
        /\ loads[t] <= 2
        /\ loads[t] = 2 => firstErr[t] = "checksum"
        /\ removed[t] => firstErr[t] = "checksum"
        /\ (firstErr[t] = "checksum"
              /\ pc[t] \notin {"cache_exists", "cache_unlink", "retry_call"})
             => loads[t] = 2
        /\ LoadFailed(t) =>
            /\ raised[t] \in {"checksum", "runtime", "other"}
            /\ ret[t] = NoResult
            /\ model[t] = 0
            /\ attempts[t] = <<>>
    /\ (\A t \in Threads : loads[t] > 0 => LoadFailed(t)) => _MODEL = 0

(***************************************************************************)
(* The claims about the command parser (SpecNLU)                           *)
(***************************************************************************)
\* C5 as stated: among the intents that share the highest count, the winner is
\* the one declared first in INTENT_KEYWORDS (out.scored is in that order).
C5_FirstDeclaredWins ==
    (step = "detected" /\ Len(out.scored) > 0) =>
        \E k \in 1..Len(out.scored) :
            /\ out.best_intent = out.scored[k][2]
            /\ \A j \in 1..Len(out.scored) : out.scored[j][1] <= out.scored[k][1]
            /\ \A j \in 1..(k - 1) : out.scored[j][1] < out.scored[k][1]

\* C5 as amended: among the intents that share the highest count, the winner is
\* the one whose name is the greatest in the order of strings.
C5_GreatestNameWins ==
    (step = "detected" /\ Len(out.scored) > 0) =>
        \E k \in 1..Len(out.scored) :
            /\ out.best_intent = out.scored[k][2]
            /\ \A j \in 1..Len(out.scored) : out.scored[j][1] <= out.scored[k][1]
            /\ \A j \in 1..Len(out.scored) :
                   (j # k /\ out.scored[j][1] = out.scored[k][1])
                       => StrLess(out.scored[j][2], out.scored[k][2])

\* two intents share the highest count and the one declared later has won
C5_Witness ==
    /\ step = "detected"
    /\ \E j, k \in 1..Len(out.scored) :
        /\ j < k
        /\ out.scored[j][1] = out.scored[k][1]
        /\ \A i \in 1..Len(out.scored) : out.scored[i][1] <= out.scored[k][1]
        /\ out.best_intent = out.scored[k][2]

HasEmergencyKeyword(text) ==
    \E w \in {"urgence", "samu", "ambulance", "secours"} : Contains(text, w)

\* C6: when call_contact is the initially selected winner and the text contains an
\* emergency keyword, detect_intent returns "emergency_call"; it never returns
\* "call_contact" for a text with an emergency keyword; parse_command sets the
\* contact of an emergency call to "urgence".
C6_EmergencyOverride ==
    /\ step = "detected" =>
        /\ (out.best_intent = "call_contact" /\ HasEmergencyKeyword(out.text))
               => out.intent = "emergency_call"
        /\ HasEmergencyKeyword(out.text) => out.intent # "call_contact"
    /\ step = "parsed" =>
        /\ HasEmergencyKeyword(out.payload.normalized_text)
               => out.payload.action # "call_contact"
        /\ out.payload.action = "emergency_call" => out.payload.contact = "urgence"

\* a command whose initial winner is call_contact was parsed as an emergency call
C6_Witness ==
    /\ step = "parsed"
    /\ out.payload.action = "emergency_call"
    /\ HasEmergencyKeyword(out.payload.normalized_text)
    /\ best_intent(out.payload.normalized_text) = "call_contact"
    /\ out.payload.contact = "urgence"

\* C7: the Text Normalizer applied to its own result returns that result.
C7_NormalizerIdempotent ==
    step = "renormalized" => out.second = out.first

\* extract_date with the "apres demain" branch checked before the "demain" branch
extract_date_ApresFirst(text, now) ==
    IF Contains(text, "apres demain") THEN now + 2
    ELSE IF Contains(text, "demain") THEN now + 1
    ELSE extract_date(text, now)

\* C8: extract_date returns the reference plus two days for a text containing
\* "apres demain", the reference plus one day for a text containing "demain" but
\* not "apres demain", and the order of the two branches does not matter.
C8_ApresDemain ==
    step = "dated" =>
        /\ Contains(out.text, "apres demain") => out.date = out.today + 2
        /\ (Contains(out.text, "demain") /\ ~Contains(out.text, "apres demain"))
               => out.date = out.today + 1
        /\ out.date = extract_date_ApresFirst(out.text, out.today)

\* C10: for a command resolved to create_reminder, medication_reminder or set_alarm
\* whose raw text holds a clock time "H:MM" and no "Hh" form, the payload's time
\* is that hour and minute as "HH:MM".
C10_ColonTime ==
    (/\ step = "parsed"
     /\ out.payload.action \in {"create_reminder", "medication_reminder", "set_alarm"}
     /\ Len(SearchTime(lower(raw_text), 1, 1)) = 0
     /\ Len(SearchTime(lower(raw_text), 1, 2)) > 0)
        => out.payload.time = FormatTime(SearchTime(lower(raw_text), 1, 2))

====
